---- MODULE Spec2Model ----
(***************************************************************************)
(* A model of src/kikapu.py, the Kikapu Naturals synthetic data generator  *)
(* (class KikapuDataGenerator).                                            *)
(*                                                                         *)
(* Money is computed by the program in IEEE-754 binary64.  The catalog row *)
(* handed to the order loop is an object-dtype pandas Series whose price   *)
(* and cost are numpy float64 scalars, so every product, sum, quotient and *)
(* difference below is a binary64 operation rounded to nearest-even, sum() *)
(* adds left to right, and round(x, 2) is numpy's: rint(x * 100.0) / 100.0.*)
(* The model computes these operations exactly, on arbitrary-precision     *)
(* naturals held as little-endian sequences of 15-bit limbs.               *)
(***************************************************************************)
EXTENDS Integers, Sequences, FiniteSets, TLC

VARIABLES
    products,          \* self.products: None or the catalog
    customers,         \* self.customers: None or the customer rows
    orders,            \* self.orders: None or the order rows
    order_line_items,  \* self.order_line_items: None or the line-item rows
    pc,                \* "idle", or "loop" inside generate_orders
    raised,            \* what the last call raised: "none" or "ValueError"
    calls,             \* the public methods called so far, in order
    orders_data,       \* generate_orders: local list of order rows
    line_items_data,   \* generate_orders: local list of line-item rows
    order_id,          \* generate_orders: local counter
    cust_idx,          \* generate_orders: customers visited so far (i + 1)
    acq_date,          \* generate_orders: acquisition instant in use
    num_orders,        \* generate_orders: orders drawn for this customer
    emitted,           \* generate_orders: orders emitted for this customer
    drawn,             \* history: the instant generate_customers drew for
                       \* each row, before null injection
    wr                 \* a call of weighted_random: its input and result

vars == <<products, customers, orders, order_line_items, pc, raised, calls,
          orders_data, line_items_data, order_id, cust_idx, acq_date, num_orders,
          emitted,
          drawn, wr>>

\* A Python value that may be None is the empty tuple for None and <<v>>
\* for the value v
None == <<>>

Some(v) == <<v>>

(***************************************************************************)
(* Arbitrary-precision naturals (the significands of binary64 values and   *)
(* their exact products and quotients).                                    *)
(***************************************************************************)
Base == 2^15

Max(a, b) == IF a >= b THEN a ELSE b

Min(a, b) == IF a <= b THEN a ELSE b

\* Limb i of a (the limb of weight Base^(i-1)), 0 beyond its length
Limb(a, i) == IF 1 <= i /\ i <= Len(a) THEN a[i] ELSE 0

\* a without its leading zero limbs
BNorm(a) ==
    LET nz == {i \in 1..Len(a) : a[i] # 0}
    IN  IF nz = {} THEN <<>>
        ELSE SubSeq(a, 1, CHOOSE i \in nz : \A j \in nz : j <= i)

\* n < 2^31 as limbs, and back
BFromNat(n) == BNorm(<<n % Base, (n \div Base) % Base, n \div (Base * Base)>>)

BToNat(a) == Limb(a, 1) + Base * Limb(a, 2) + Base * Base * Limb(a, 3)

\* The number whose limb sums are t[i] <= 2 * Base - 2: the carry into
\* limb i is 1 when a lower limb overflows and every limb between is full
BCarry(t) ==
    LET u    == SubSeq(t, 1, Len(t))
        c(i) == \E j \in 1..(i - 1) :
                    /\ u[j] >= Base
                    /\ \A k \in (j + 1)..(i - 1) : u[k] = Base - 1
    IN  BNorm([i \in 1..(Len(u) + 1) |->
                  (Limb(u, i) + (IF c(i) THEN 1 ELSE 0)) % Base])

BAdd(a, b) == BCarry([i \in 1..Max(Len(a), Len(b)) |-> Limb(a, i) + Limb(b, i)])

\* a - b, for a >= b: limb i borrows when a lower limb of a is below b's and
\* every limb between is equal
BSub(a, b) ==
    LET br(i) == \E j \in 1..(i - 1) :
                     /\ a[j] < Limb(b, j)
                     /\ \A k \in (j + 1)..(i - 1) : a[k] = Limb(b, k)
    IN  BNorm([i \in 1..Len(a) |->
                  (a[i] - Limb(b, i) - (IF br(i) THEN 1 ELSE 0) + Base) % Base])

\* -1, 0 or 1 as a < b, a = b or a > b (both normalised)
BCmp(a, b) ==
    IF Len(a) < Len(b) THEN -1
    ELSE IF Len(a) > Len(b) THEN 1
    ELSE LET diff == {i \in 1..Len(a) : a[i] # b[i]}
         IN  IF diff = {} THEN 0
             ELSE LET i == CHOOSE x \in diff : \A y \in diff : y <= x
                  IN  IF a[i] < b[i] THEN -1 ELSE 1

\* a * s, for 0 <= s <= Base
BMulSmall(a, s) ==
    BCarry([i \in 1..(Len(a) + 1) |->
               ((Limb(a, i) * s) % Base) + ((Limb(a, i - 1) * s) \div Base)])

RECURSIVE BMul(_, _)
BMul(a, b) ==
    IF a = <<>> \/ b = <<>> THEN <<>>
    ELSE LET rest == BMul(a, Tail(b))
         IN  BAdd(BMulSmall(a, b[1]), IF rest = <<>> THEN <<>> ELSE <<0>> \o rest)

\* a * 2^k
BShl(a, k) ==
    IF a = <<>> THEN <<>>
    ELSE [j \in 1..(k \div 15) |-> 0] \o BMulSmall(a, 2^(k % 15))

\* floor(a / 2^k)
BShr(a, k) ==
    LET w == k \div 15
        s == k % 15
    IN  IF Len(a) <= w THEN <<>>
        ELSE BNorm([i \in 1..(Len(a) - w) |->
                       (a[i + w] \div 2^s) + ((Limb(a, i + w + 1) % 2^s) * 2^(15 - s))])

\* The number of bits of a limb
NatBitLen(n) == CHOOSE k \in 0..15 : 2^k > n /\ (k = 0 \/ 2^(k - 1) <= n)

BBitLen(a) == IF a = <<>> THEN 0 ELSE 15 * (Len(a) - 1) + NatBitLen(a[Len(a)])

BIsOdd(a) == a # <<>> /\ a[1] % 2 = 1

\* One limb of a long division: the d with d * b <= cur < (d + 1) * b, for
\* cur < b * Base and b with a top limb of 15 bits.  The two top limbs of
\* cur over the top limb of b overestimate d by at most 2
BDigit(cur, b) ==
    LET n   == Len(b)
        top == Limb(cur, n + 1) * Base + Limb(cur, n)
        est == Min(top \div b[n], Base - 1)
    IN  CHOOSE d \in Max(est - 2, 0)..est :
            /\ BCmp(BMulSmall(b, d), cur) <= 0
            /\ BCmp(BMulSmall(b, d + 1), cur) > 0

\* Long division, one limb of a at a time from the top (limbs i..1 left, r
\* the running remainder): the quotient's limbs 1..i and the remainder
RECURSIVE BDivModLoop(_, _, _, _)
BDivModLoop(a, b, i, r) ==
    IF i = 0 THEN [q |-> <<>>, r |-> r]
    ELSE LET cur == BNorm(<<a[i]>> \o r)
         IN  IF BCmp(cur, b) < 0
             THEN LET rest == BDivModLoop(a, b, i - 1, cur)
                  IN  [q |-> rest.q \o <<0>>, r |-> rest.r]
             ELSE LET d    == BDigit(cur, b)
                      rest == BDivModLoop(a, b, i - 1, BSub(cur, BMulSmall(b, d)))
                  IN  [q |-> rest.q \o <<d>>, r |-> rest.r]

\* [q, r] with a = q * b + r and r < b, for b > 0.  Both are first scaled so
\* that the top limb of b has 15 bits; the top Len(b) - 1 limbs of a are
\* below b and start the remainder
BDivMod(a, b) ==
    LET sh == 15 - NatBitLen(b[Len(b)])
        an == BShl(a, sh)
        bn == BShl(b, sh)
        i0 == Max(Len(an) - Len(bn) + 1, 0)
        d  == BDivModLoop(an, bn, i0, SubSeq(an, i0 + 1, Len(an)))
    IN  [q |-> BNorm(d.q), r |-> BShr(d.r, sh)]

(***************************************************************************)
(* IEEE-754 binary64, for the non-negative finite values the generator     *)
(* computes: [m, e] is m * 2^e with 2^52 <= m < 2^53, and zero is m = <<>>.*)
(***************************************************************************)
FZero == [m |-> <<>>, e |-> 0]

\* The binary64 nearest to n * 2^e (+ a positive amount below 2^e when
\* sticky), ties to even.  A sticky n has more than 53 bits.
FRound(n, e, sticky) ==
    LET L == BBitLen(n) IN
    IF L = 0 THEN FZero
    ELSE IF L <= 53 THEN [m |-> BShl(n, 53 - L), e |-> e - (53 - L)]
    ELSE LET s    == L - 53
             q    == BShr(n, s)
             low  == BSub(n, BShl(q, s))
             c    == BCmp(low, BShl(<<1>>, s - 1))
             up   == c > 0 \/ (c = 0 /\ (sticky \/ BIsOdd(q)))
             q2   == IF up THEN BAdd(q, <<1>>) ELSE q
         IN  IF BBitLen(q2) > 53 THEN [m |-> BShr(q2, 1), e |-> e + s + 1]
             ELSE [m |-> q2, e |-> e + s]

FFromNat(n) == FRound(BFromNat(n), 0, FALSE)

FMul(x, y) == FRound(BMul(x.m, y.m), x.e + y.e, FALSE)

FAdd(x, y) ==
    IF x.m = <<>> THEN y
    ELSE IF y.m = <<>> THEN x
    ELSE LET e == Min(x.e, y.e)
         IN  FRound(BAdd(BShl(x.m, x.e - e), BShl(y.m, y.e - e)), e, FALSE)

\* x - y, for x >= y
FSub(x, y) ==
    IF y.m = <<>> THEN x
    ELSE LET e == Min(x.e, y.e)
         IN  FRound(BSub(BShl(x.m, x.e - e), BShl(y.m, y.e - e)), e, FALSE)

\* x / y, for y > 0: 57 extra quotient bits, the remainder is the sticky bit
FDiv(x, y) ==
    IF x.m = <<>> THEN FZero
    ELSE LET d == BDivMod(BShl(x.m, 57), y.m)
         IN  FRound(d.q, x.e - y.e - 57, d.r # <<>>)

\* a / b of two Python ints (true division), and the literal a/b written in
\* decimal: both are the binary64 nearest to the quotient
FQuot(a, b) == FDiv(FFromNat(a), FFromNat(b))

\* numpy.rint of x >= 0, as a natural: nearest integer, ties to even
FRint(x) ==
    IF x.m = <<>> THEN 0
    ELSE IF x.e >= 0 THEN BToNat(BShl(x.m, x.e))
    ELSE LET s   == 0 - x.e
             q   == BShr(x.m, s)
             low == BSub(x.m, BShl(q, s))
             c   == BCmp(low, BShl(<<1>>, s - 1))
             up  == c > 0 \/ (c = 0 /\ BIsOdd(q))
         IN  BToNat(q) + (IF up THEN 1 ELSE 0)

F100 == FFromNat(100)

\* round(x, 2) on a numpy float64: rint(x * 100.0) / 100.0.  The result is
\* the binary64 nearest to N / 100 for the natural N returned here; a stored
\* monetary field is written as this N (its value in hundredths).
Round2(x) == FRint(FMul(x, F100))

\* The binary64 that a stored monetary field N holds
Stored(n) == FDiv(FFromNat(n), F100)

(***************************************************************************)
(* The random source.  random.random() is sampled on the dyadic grid       *)
(* k / Den, k in 0..Den-1: such a draw, its product with a small integer   *)
(* and its comparison with a probability are exact in binary64, so the     *)
(* model computes them on integers.  A draw is written as its numerator k. *)
(***************************************************************************)
DrawBits == 5

Den == 2^DrawBits

UnitDraws == 0..(Den - 1)

\* random.random() < pnum / pden, for the draw k / Den
Below(k, pnum, pden) == k * pden < pnum * Den

\* random.randint(lo, hi) is any integer of lo..hi
RandInt(lo, hi) == lo..hi

(***************************************************************************)
(* weighted_random.  WeightedWalk is the loop and its fallback, on the     *)
(* value rand = random.random() * total given in units of 1 / den.  The    *)
(* subtraction rand -= weight is exact in binary64 (rand is a multiple of  *)
(* its own ulp, weight an integer below it).  Indices are 0-based.         *)
(***************************************************************************)
RECURSIVE SumSeq(_)
SumSeq(w) == IF w = <<>> THEN 0 ELSE w[1] + SumSeq(Tail(w))

\* The walk with the comparison rand <= weight in place of rand < weight
RECURSIVE WeightedWalkInclusive(_, _, _, _)
WeightedWalkInclusive(weights, rand, den, j) ==
    IF j > Len(weights) THEN Len(weights) - 1
    ELSE IF rand <= weights[j] * den THEN j - 1
    ELSE WeightedWalkInclusive(weights, rand - weights[j] * den, den, j + 1)

RECURSIVE WeightedWalkFrom(_, _, _, _)
WeightedWalkFrom(weights, rand, den, j) ==
    IF j > Len(weights) THEN Len(weights) - 1
    ELSE IF rand < weights[j] * den THEN j - 1
    ELSE WeightedWalkFrom(weights, rand - weights[j] * den, den, j + 1)

WeightedWalk(weights, rand, den) == WeightedWalkFrom(weights, rand, den, 1)

\* weighted_random(weights) when random.random() returns k / Den
WeightedRandom(weights, k) == WeightedWalk(weights, k * SumSeq(weights), Den)

(***************************************************************************)
(* datetime.  An instant is a number of ticks of 1 / Den day since the     *)
(* midnight before 0001-01-01 (ordinal * Den + fraction); a date string    *)
(* '%Y-%m-%d' is the triple <<year, month, day>>.                          *)
(***************************************************************************)
IsLeap(y) == y % 4 = 0 /\ (y % 100 # 0 \/ y % 400 = 0)

DaysInMonth(y, m) ==
    IF m = 2 THEN (IF IsLeap(y) THEN 29 ELSE 28)
    ELSE IF m \in {4, 6, 9, 11} THEN 30 ELSE 31

RECURSIVE DaysBeforeMonth(_, _)
DaysBeforeMonth(y, m) ==
    IF m = 1 THEN 0 ELSE DaysBeforeMonth(y, m - 1) + DaysInMonth(y, m - 1)

DaysBeforeYear(y) ==
    (y - 1) * 365 + (y - 1) \div 4 - (y - 1) \div 100 + (y - 1) \div 400

\* date(y, m, d).toordinal()
Ymd2Ord(ymd) ==
    DaysBeforeYear(ymd[1]) + DaysBeforeMonth(ymd[1], ymd[2]) + ymd[3]

\* date.fromordinal(ord), as <<year, month, day>>
Ord2Ymd(ord) ==
    LET n0   == ord - 1
        n400 == n0 \div 146097
        r400 == n0 % 146097
        n100 == r400 \div 36524
        r100 == r400 % 36524
        n4   == r100 \div 1461
        r4   == r100 % 1461
        n1   == r4 \div 365
        r1   == r4 % 365
        year == n400 * 400 + n100 * 100 + n4 * 4 + n1 + 1
    IN  IF n1 = 4 \/ n100 = 4 THEN <<year - 1, 12, 31>>
        ELSE LET month == CHOOSE m \in 1..12 :
                              /\ DaysBeforeMonth(year, m) <= r1
                              /\ r1 < DaysBeforeMonth(year, m) + DaysInMonth(year, m)
             IN  <<year, month, r1 - DaysBeforeMonth(year, month) + 1>>

\* datetime(y, m, d): midnight of that date
Midnight(ymd) == Ymd2Ord(ymd) * Den

\* t.strftime('%Y-%m-%d'): the time of day is dropped
StrFTime(t) == Ord2Ymd(t \div Den)

\* datetime.strptime(s, '%Y-%m-%d')
StrPTime(s) == Midnight(s)

\* (b - a).days: whole days of the difference, rounded down
DeltaDays(a, b) == (b - a) \div Den

\* random_date(start_date, end_date) when random.random() returns k / Den:
\* start + (k / Den) * delta.days days
RandomDate(start_date, end_date, k) ==
    start_date + k * DeltaDays(start_date, end_date)

(***************************************************************************)
(* Formatted identifiers: a string is the sequence of its characters.      *)
(***************************************************************************)
DigitChar == <<"0", "1", "2", "3", "4", "5", "6", "7", "8", "9">>

RECURSIVE Decimal(_)
Decimal(k) ==
    IF k < 10 THEN <<DigitChar[k + 1]>>
    ELSE Decimal(k \div 10) \o <<DigitChar[(k % 10) + 1]>>

\* f"{k:0{width}d}": at least width digits, zero-filled on the left
ZeroPad(k, width) ==
    LET d == Decimal(k) IN [j \in 1..(width - Len(d)) |-> "0"] \o d

\* f"C{k:06d}"
D2CId(k) == <<"C">> \o ZeroPad(k, 6)

\* f"B{k:05d}"
B2BId(k) == <<"B">> \o ZeroPad(k, 5)

\* f"ORD{k:07d}"
OrderId(k) == <<"O", "R", "D">> \o ZeroPad(k, 7)

\* f"LI{k:07d}_{item_idx}"
LineItemId(k, item_idx) ==
    <<"L", "I">> \o ZeroPad(k, 7) \o <<"_">> \o Decimal(item_idx)

(***************************************************************************)
(* generate_products: the fixed catalog.  Prices and costs are the         *)
(* binary64 values of the decimal literals.                                *)
(***************************************************************************)
ProductsData ==
    << <<"P001", "Beverage",      "Organic Green Tea",      1899,  850, "2021-03-01">>,
       <<"P002", "Beverage",      "Herbal Wellness Blend",  2299, 1020, "2021-06-15">>,
       <<"P003", "Snack",         "Superfood Energy Bars",  2499, 1200, "2021-01-10">>,
       <<"P004", "Snack",         "Organic Trail Mix",      1599,  780, "2021-08-01">>,
       <<"P005", "Supplement",    "Vitamin D3 Gummies",     2999, 1450, "2022-01-01">>,
       <<"P006", "Supplement",    "Probiotic Blend",        3499, 1680, "2022-03-15">>,
       <<"P007", "Personal Care", "Natural Face Serum",     3999, 1800, "2022-06-01">>,
       <<"P008", "Personal Care", "Organic Body Lotion",    2699, 1250, "2022-08-10">>,
       <<"P009", "Beverage",      "Detox Tea Collection",   3299, 1500, "2023-01-05">>,
       <<"P010", "Snack",         "Keto-Friendly Crackers", 1999,  950, "2023-04-20">> >>

Catalog ==
    [j \in 1..Len(ProductsData) |->
        [product_id   |-> ProductsData[j][1],
         category     |-> ProductsData[j][2],
         name         |-> ProductsData[j][3],
         unit_price   |-> FQuot(ProductsData[j][4], 100),
         avg_cogs     |-> FQuot(ProductsData[j][5], 100),
         active_since |-> ProductsData[j][6]]]

(***************************************************************************)
(* generate_customers.  A row keeps the columns the order generator reads  *)
(* (customer_id, segment, acquisition_date, status); channel, country,     *)
(* company_name and account_tier are written once and never read again.   *)
(***************************************************************************)
D2CStart == Midnight(<<2022, 1, 1>>)

B2BStart == Midnight(<<2021, 6, 1>>)

EndDate == Midnight(<<2024, 11, 30>>)

Statuses == <<"Active", "Churned", "At Risk">>

\* The churn weights of a cohort that is days_since_acq days old
ChurnWeights(days_since_acq) ==
    IF days_since_acq < 90 THEN <<80, 15, 5>>
    ELSE IF days_since_acq < 365 THEN <<60, 30, 10>>
    ELSE <<40, 50, 10>>

\* The acquisition_date column after the 2% null injection
InjectAcqNull(acq, k) == IF Below(k, 2, 100) THEN None ELSE Some(StrFTime(acq))

\* One pass of the D2C loop, for the draws d = [acq, st, na]
D2CCustomer(k, d) ==
    LET acq            == RandomDate(D2CStart, EndDate, d.acq)
        days_since_acq == DeltaDays(acq, EndDate)
    IN  [row   |-> [customer_id      |-> D2CId(k),
                    segment          |-> "D2C",
                    acquisition_date |-> InjectAcqNull(acq, d.na),
                    status           |-> Statuses[WeightedRandom(
                                             ChurnWeights(days_since_acq), d.st) + 1]],
         drawn |-> acq]

\* One pass of the B2B loop, for the draws d = [acq]
B2BCustomer(k, d) ==
    LET acq == RandomDate(B2BStart, EndDate, d.acq)
    IN  [row   |-> [customer_id      |-> B2BId(k),
                    segment          |-> "B2B",
                    acquisition_date |-> Some(StrFTime(acq)),
                    status           |-> "Active"],
         drawn |-> acq]

\* The rows of generate_customers(num_d2c, num_b2b), D2C first
CustomerRows(num_d2c, num_b2b, dd, bd) ==
    [j \in 1..(num_d2c + num_b2b) |->
        IF j <= num_d2c THEN D2CCustomer(j, dd[j])
        ELSE B2BCustomer(j - num_d2c, bd[j - num_d2c])]

(***************************************************************************)
(* generate_orders: what one pass of the loops computes.                   *)
(***************************************************************************)
\* The precondition with "and" in place of "or"
PrecondFailsBoth(c, p) == c = None /\ p = None

\* if self.customers is None or self.products is None: raise ValueError
PrecondFails(c, p) == c = None \/ p = None

\* The parse that falls back to the start of the D2C acquisition window
ParseAcqDateWindowStart(customer) ==
    IF customer.acquisition_date = None THEN D2CStart
    ELSE StrPTime(customer.acquisition_date[1])

FallbackAcq == Midnight(<<2023, 1, 1>>)

\* The acquisition instant the order loop uses for a customer row
ParseAcqDate(customer) ==
    IF customer.acquisition_date = None THEN FallbackAcq
    ELSE StrPTime(customer.acquisition_date[1])

\* The order-count bounds with a churned customer allowed no order at all
OrderCountRangeFromZero(customer) ==
    IF customer.segment = "B2B" THEN <<12, 36>>
    ELSE IF customer.status = "Active" THEN <<2, 10>>
    ELSE IF customer.status = "Churned" THEN <<0, 3>>
    ELSE <<2, 7>>

\* The bounds <<lo, hi>> of random.randint for a customer's order count
OrderCountRange(customer) ==
    IF customer.segment = "B2B" THEN <<12, 36>>
    ELSE IF customer.status = "Active" THEN <<2, 10>>
    ELSE IF customer.status = "Churned" THEN <<1, 3>>
    ELSE <<2, 7>>

\* The window end without the two-year clamp
OrderWindowEndUnclamped(acq) == acq + DeltaDays(acq, EndDate) * Den

\* acq_date + timedelta(days=min(days_since_acq, 730))
OrderWindowEnd(acq) == acq + Min(DeltaDays(acq, EndDate), 730) * Den

\* The order instant for the draw k / Den
OrderDate(acq, k) == RandomDate(acq, OrderWindowEnd(acq), k)

ProductCountRange(is_b2b) == IF is_b2b THEN <<3, 8>> ELSE <<1, 3>>

QuantityRange(is_b2b) == IF is_b2b THEN <<10, 60>> ELSE <<1, 3>>

DiscountPercents(is_b2b) == IF is_b2b THEN <<0, 5, 10, 15, 20>> ELSE <<0, 10, 15>>

DiscountWeights(is_b2b) == IF is_b2b THEN <<20, 30, 30, 15, 5>> ELSE <<70, 25, 5>>

\* discount_percent for the draw k / Den
DiscountPercent(is_b2b, k) ==
    DiscountPercents(is_b2b)[WeightedRandom(DiscountWeights(is_b2b), k) + 1]

\* sum(xs) of numpy float64 values: 0 + xs[1] + xs[2] + ..., left to right
RECURSIVE SumFrom(_, _, _)
SumFrom(xs, j, acc) ==
    IF j > Len(xs) THEN acc ELSE SumFrom(xs, j + 1, FAdd(acc, xs[j]))

FSum(xs) == SumFrom(xs, 1, FZero)

\* An item is [p, q]: the catalog row index (0-based) and the quantity
ItemSubtotal(item) == FMul(Catalog[item.p + 1].unit_price, FFromNat(item.q))

ItemCogs(item) == FMul(Catalog[item.p + 1].avg_cogs, FFromNat(item.q))

\* The unrounded totals of an order
OrderAmounts(items, discount_percent) ==
    LET subtotal        == FSum([j \in 1..Len(items) |-> ItemSubtotal(items[j])])
        discount_amount == FMul(subtotal, FQuot(discount_percent, 100))
        revenue         == FSub(subtotal, discount_amount)
        total_cogs      == FSum([j \in 1..Len(items) |-> ItemCogs(items[j])])
    IN  [subtotal        |-> subtotal,
         discount_amount |-> discount_amount,
         revenue         |-> revenue,
         total_cogs      |-> total_cogs,
         profit          |-> FSub(revenue, total_cogs)]

\* The unrounded amounts of one line item of an order with totals amt
LineAmounts(item, amt) ==
    LET item_subtotal == ItemSubtotal(item)
        item_discount == FMul(FDiv(item_subtotal, amt.subtotal), amt.discount_amount)
        item_revenue  == FSub(item_subtotal, item_discount)
        item_cogs     == ItemCogs(item)
    IN  [subtotal |-> item_subtotal,
         discount |-> item_discount,
         revenue  |-> item_revenue,
         cogs     |-> item_cogs,
         profit   |-> FSub(item_revenue, item_cogs)]

\* round(., 2) of the five monetary fields of the order record
OrderMoney(amt) ==
    [subtotal        |-> Round2(amt.subtotal),
     discount_amount |-> Round2(amt.discount_amount),
     revenue         |-> Round2(amt.revenue),
     total_cogs      |-> Round2(amt.total_cogs),
     profit          |-> Round2(amt.profit)]

\* round(., 2) of the five monetary fields of a line-item record
LineMoney(la) ==
    [subtotal        |-> Round2(la.subtotal),
     discount_amount |-> Round2(la.discount),
     revenue         |-> Round2(la.revenue),
     cogs            |-> Round2(la.cogs),
     profit          |-> Round2(la.profit)]

\* The monetary fields of an order and of each of its line items, as the
\* loop body computes and rounds them
Worked(items, discount_percent) ==
    LET amt == OrderAmounts(items, discount_percent)
    IN  [order |-> OrderMoney(amt),
         lines |-> [j \in 1..Len(items) |-> LineMoney(LineAmounts(items[j], amt))]]

\* The order record before the data quality issues
OrderRecord(k, customer, date, items, discount_percent, money) ==
    [order_id         |-> OrderId(k),
     customer_id      |-> customer.customer_id,
     order_date       |-> Some(StrFTime(date)),
     subtotal         |-> money.subtotal,
     discount_percent |-> discount_percent,
     discount_amount  |-> money.discount_amount,
     revenue          |-> money.revenue,
     total_cogs       |-> Some(money.total_cogs),
     profit           |-> Some(money.profit),
     num_items        |-> Len(items)]

\* 0.5% missing order dates
InjectDateNull(order, k) ==
    IF Below(k, 5, 1000) THEN [order EXCEPT !.order_date = None] ELSE order

\* The COGS injection that forgets the profit column
InjectCogsOnly(order, k) ==
    IF Below(k, 3, 100) THEN [order EXCEPT !.total_cogs = None] ELSE order

\* 3% missing COGS
InjectCogsNull(order, k) ==
    IF Below(k, 3, 100) THEN [order EXCEPT !.total_cogs = None, !.profit = None]
    ELSE order

LineItemRecord(k, item_idx, order, customer, item, money) ==
    [line_item_id    |-> LineItemId(k, item_idx),
     order_id        |-> order.order_id,
     customer_id     |-> customer.customer_id,
     product_id      |-> Catalog[item.p + 1].product_id,
     product_name    |-> Catalog[item.p + 1].name,
     category        |-> Catalog[item.p + 1].category,
     quantity        |-> item.q,
     unit_price      |-> Catalog[item.p + 1].unit_price,
     subtotal        |-> money.subtotal,
     discount_amount |-> money.discount_amount,
     revenue         |-> money.revenue,
     cogs            |-> money.cogs,
     profit          |-> money.profit,
     order_date      |-> order.order_date]

\* One pass of the order loop for order number k of a customer: the order
\* row and its line items, for the instant date, the selected items, the
\* discount, their monetary fields w and the null-injection draws nd, nc
OrderBody(k, customer, date, items, discount_percent, w, nd, nc) ==
    LET order == InjectCogsNull(
                     InjectDateNull(
                         OrderRecord(k, customer, date, items, discount_percent,
                                     w.order),
                         nd),
                     nc)
    IN  [order |-> order,
         lines |-> [j \in 1..Len(items) |->
                       LineItemRecord(k, j, order, customer, items[j], w.lines[j])]]

\* The counter left where it is
NextOrderIdStuck(k) == k

\* order_id += 1
NextOrderId(k) == k + 1

(***************************************************************************)
(* Sampling of the random source.  The draws an action ranges over are     *)
(* taken from these sets; each specification below says which.             *)
(***************************************************************************)
\* cnt integers spread over lo..hi, from lo up to hi
SampleRange(lo, hi, cnt) ==
    IF cnt = 1 THEN {lo}
    ELSE {lo + ((hi - lo) * j) \div (cnt - 1) : j \in 0..(cnt - 1)}

\* The least draw of every band of a weight table: one draw per index that
\* weighted_random can return on the grid
BandStarts(weights) ==
    {k \in UnitDraws :
        k = 0 \/ WeightedRandom(weights, k) # WeightedRandom(weights, k - 1)}

StatusDraws ==
    BandStarts(<<80, 15, 5>>) \cup BandStarts(<<60, 30, 10>>)
        \cup BandStarts(<<40, 50, 10>>)

\* A draw below every injection probability and one above them all
FlipDraws == {0, Den - 1}

\* All item lists of min_len..max_len items over the catalog rows ps and
\* the quantities qs
ItemLists(ps, qs, min_len, max_len) ==
    UNION {[1..len -> [p : ps, q : qs]] : len \in min_len..max_len}

(***************************************************************************)
(* The generator object.                                                   *)
(***************************************************************************)
NoCall == [weights |-> <<>>, rand |-> 0, called |-> FALSE, returned |-> None]

Init ==
    /\ products = None
    /\ customers = None
    /\ orders = None
    /\ order_line_items = None
    /\ pc = "idle"
    /\ raised = "none"
    /\ calls = <<>>
    /\ orders_data = <<>>
    /\ line_items_data = <<>>
    /\ order_id = 0
    /\ cust_idx = 0
    /\ acq_date = 0
    /\ num_orders = 0
    /\ emitted = 0
    /\ drawn = <<>>
    /\ wr = NoCall

Locals == <<orders_data, line_items_data, order_id, cust_idx, acq_date,
            num_orders, emitted>>

Tables == <<products, customers, orders, order_line_items>>

\* generate_products()
GenerateProducts(max_calls) ==
    /\ pc = "idle"
    /\ Len(calls) < max_calls
    /\ products' = Some(Catalog)
    /\ raised' = "none"
    /\ calls' = Append(calls, "generate_products")
    /\ UNCHANGED <<customers, orders, order_line_items, pc, Locals, drawn, wr>>

\* generate_customers(num_d2c, num_b2b), for the counts <<num_d2c, num_b2b>>
\* of Counts and the acquisition, status and null-injection draws given
GenerateCustomers(max_calls, Counts, AcqDraws, StDraws, NaDraws) ==
    /\ pc = "idle"
    /\ Len(calls) < max_calls
    /\ \E cnt \in Counts :
         \E dd \in [1..cnt[1] -> [acq : AcqDraws, st : StDraws, na : NaDraws]],
            bd \in [1..cnt[2] -> [acq : AcqDraws]] :
             LET rows == CustomerRows(cnt[1], cnt[2], dd, bd)
             IN  /\ customers' = Some([j \in 1..Len(rows) |-> rows[j].row])
                 /\ drawn' = [j \in 1..Len(rows) |-> rows[j].drawn]
    /\ raised' = "none"
    /\ calls' = Append(calls, "generate_customers")
    /\ UNCHANGED <<products, orders, order_line_items, pc, Locals, wr>>

\* generate_orders() when a table it needs is missing: ValueError
GenerateOrdersRaise(max_calls) ==
    /\ pc = "idle"
    /\ Len(calls) < max_calls
    /\ PrecondFails(customers, products)
    /\ raised' = "ValueError"
    /\ calls' = Append(calls, "generate_orders")
    /\ UNCHANGED <<Tables, pc, Locals, drawn, wr>>

\* generate_orders(): past the precondition, up to the customer loop
BeginOrders(max_calls) ==
    /\ pc = "idle"
    /\ Len(calls) < max_calls
    /\ ~PrecondFails(customers, products)
    /\ pc' = "loop"
    /\ raised' = "none"
    /\ calls' = Append(calls, "generate_orders")
    /\ orders_data' = <<>>
    /\ line_items_data' = <<>>
    /\ order_id' = 1
    /\ cust_idx' = 0
    /\ num_orders' = 0
    /\ emitted' = 0
    /\ UNCHANGED <<Tables, acq_date, drawn, wr>>

\* generate_orders(): the head of the customer loop, for the next row
NextCustomer(count_samples) ==
    /\ pc = "loop"
    /\ emitted = num_orders
    /\ cust_idx < Len(customers[1])
    /\ LET customer == customers[1][cust_idx + 1]
           range    == OrderCountRange(customer)
       IN  /\ acq_date' = ParseAcqDate(customer)
           /\ num_orders' \in RandInt(range[1], range[2])
                               \cap SampleRange(range[1], range[2], count_samples)
    /\ cust_idx' = cust_idx + 1
    /\ emitted' = 0
    /\ UNCHANGED <<Tables, pc, raised, calls, orders_data, line_items_data,
                   order_id, drawn, wr>>

\* The results of one pass of the order loop for order number k: one per
\* choice of the item list, the discount draw, the date draw and the two
\* null-injection draws.  Work[<<items, pct>>] gives the monetary fields
OrderBodies(k, customer, acq, DateDraws, ItemSet, DiscDraws, NullDraws, Work) ==
    UNION {LET discount_percent == DiscountPercent(customer.segment = "B2B", disc)
               w                == Work[<<items, discount_percent>>]
           IN  {OrderBody(k, customer, OrderDate(acq, date), items,
                          discount_percent, w, nd, nc) :
                    date \in DateDraws, nd \in NullDraws, nc \in NullDraws} :
           items \in ItemSet, disc \in DiscDraws}

\* generate_orders(): one pass of the order loop.  ItemSets[is_b2b] are the
\* item lists drawn, DiscDraws[is_b2b] the discount draws, Work[<<items,
\* pct>>] their monetary fields; at most max_rows orders are followed
EmitOrder(DateDraws, ItemSets, DiscDraws, NullDraws, Work, max_rows) ==
    /\ pc = "loop"
    /\ emitted < num_orders
    /\ Len(orders_data) < max_rows
    /\ LET customer == customers[1][cust_idx]
           is_b2b   == customer.segment = "B2B"
       IN  \E body \in OrderBodies(order_id, customer, acq_date, DateDraws,
                                   ItemSets[is_b2b], DiscDraws[is_b2b], NullDraws,
                                   Work) :
             /\ orders_data' = Append(orders_data, body.order)
             /\ line_items_data' = line_items_data \o body.lines
    /\ order_id' = NextOrderId(order_id)
    /\ emitted' = emitted + 1
    /\ UNCHANGED <<Tables, pc, raised, calls, cust_idx, acq_date, num_orders,
                   drawn, wr>>

\* generate_orders(): after the loops, the two tables are stored
FinishOrders ==
    /\ pc = "loop"
    /\ emitted = num_orders
    /\ cust_idx = Len(customers[1])
    /\ orders' = Some(orders_data)
    /\ order_line_items' = Some(line_items_data)
    /\ pc' = "idle"
    /\ UNCHANGED <<products, customers, raised, calls, Locals, drawn, wr>>

(***************************************************************************)
(* Spec: the object over every sequence of at most MaxCalls public calls,  *)
(* on tables of at most one customer, with one sampled content per order   *)
(* and the least order count per customer.                                 *)
(***************************************************************************)
MaxCalls == 3

\* The least item list of a segment: the fewest items, the first catalog
\* row, the least quantity
LeastItems ==
    [is_b2b \in BOOLEAN |->
        {[j \in 1..ProductCountRange(is_b2b)[1] |->
             [p |-> 0, q |-> QuantityRange(is_b2b)[1]]]}]

FirstDraw == [is_b2b \in BOOLEAN |-> {0}]

MidDraw == {Den \div 2}

NoInjection == {Den - 1}

\* Worked on the two least item lists at no discount, tabulated
LeastWorked ==
    [is_b2b \in BOOLEAN |-> Worked(CHOOSE items \in LeastItems[is_b2b] : TRUE, 0)]

WorkedLeast ==
    [x \in (LeastItems[TRUE] \cup LeastItems[FALSE]) \X {0} |->
        LeastWorked[Len(x[1]) > 1]]

\* generate_customers(0, 0), (1, 0) and (0, 1)
OneOrNone == {<<0, 0>>, <<1, 0>>, <<0, 1>>}

Next ==
    \/ GenerateProducts(MaxCalls)
    \/ GenerateCustomers(MaxCalls, OneOrNone, MidDraw, StatusDraws, FlipDraws)
    \/ GenerateOrdersRaise(MaxCalls)
    \/ BeginOrders(MaxCalls)
    \/ NextCustomer(1)
    \/ EmitOrder(MidDraw, LeastItems, FirstDraw, NoInjection, WorkedLeast, 36)
    \/ FinishOrders

Spec == Init /\ [][Next]_vars

(***************************************************************************)
(* SpecRun: generate_products(), generate_customers for up to MaxD2C and   *)
(* MaxB2B customers of every status, then one whole run of                 *)
(* generate_orders() with CountSamples order counts per customer, the      *)
(* ends of the range included, and one sampled content per order.          *)
(***************************************************************************)
MaxD2C == 1

MaxB2B == 1

CountSamples == 2

MaxRows == 10 * MaxD2C + 36 * MaxB2B

NextRun ==
    \/ GenerateProducts(1)
    \/ GenerateCustomers(2, (0..MaxD2C) \X (0..MaxB2B), MidDraw, StatusDraws,
                         NoInjection)
    \/ BeginOrders(3)
    \/ NextCustomer(CountSamples)
    \/ EmitOrder(MidDraw, LeastItems, FirstDraw, NoInjection, WorkedLeast, MaxRows)
    \/ FinishOrders

SpecRun == Init /\ [][NextRun]_vars

(***************************************************************************)
(* SpecDates: generate_products(), generate_customers for one customer of  *)
(* either segment and every acquisition draw, then generate_orders() up to *)
(* the first pass of the order loop, for every order-date draw.            *)
(***************************************************************************)
OneCustomer == {<<1, 0>>, <<0, 1>>}

NextDates ==
    \/ GenerateProducts(1)
    \/ GenerateCustomers(2, OneCustomer, UnitDraws, StatusDraws, FlipDraws)
    \/ BeginOrders(3)
    \/ NextCustomer(CountSamples)
    \/ EmitOrder(UnitDraws, LeastItems, FirstDraw, NoInjection, WorkedLeast, 1)

SpecDates == Init /\ [][NextDates]_vars

(***************************************************************************)
(* SpecTotals: the same three calls for one customer of either segment,    *)
(* and the first pass of the order loop for every item list of at most     *)
(* MaxItems items over the catalog rows TotalsRows, every discount tier    *)
(* and both outcomes of each null injection.                               *)
(***************************************************************************)
MaxItems == 4

\* The catalog rows the item lists draw from (0-based): P001
TotalsRows == {0}

\* Every D2C quantity; the two ends of the B2B range
TotalsQuantities(is_b2b) ==
    LET range == QuantityRange(is_b2b)
    IN  IF is_b2b THEN {range[1], range[2]} ELSE RandInt(range[1], range[2])

TotalsItems ==
    [is_b2b \in BOOLEAN |->
        LET range == ProductCountRange(is_b2b)
        IN  ItemLists(TotalsRows, TotalsQuantities(is_b2b),
                      range[1], Min(range[2], MaxItems))]

TierDraws == [is_b2b \in BOOLEAN |-> BandStarts(DiscountWeights(is_b2b))]

FirstStatus == {0}

\* The discount percents of either segment
AllPercents ==
    UNION {{DiscountPercents(is_b2b)[j] : j \in 1..Len(DiscountPercents(is_b2b))} :
           is_b2b \in BOOLEAN}

\* Worked on every item list and discount of SpecTotals
TotalsWorked ==
    [x \in (TotalsItems[TRUE] \cup TotalsItems[FALSE]) \X AllPercents |->
        Worked(x[1], x[2])]

NextTotals ==
    \/ GenerateProducts(1)
    \/ GenerateCustomers(2, OneCustomer, MidDraw, FirstStatus, NoInjection)
    \/ BeginOrders(3)
    \/ NextCustomer(1)
    \/ EmitOrder(MidDraw, TotalsItems, TierDraws, FlipDraws, TotalsWorked, 1)

SpecTotals == Init /\ [][NextTotals]_vars

(***************************************************************************)
(* SpecWR: weighted_random on every weight sequence of at most MaxLen      *)
(* weights of at most MaxWeight, and every value of rand in [0, total) on  *)
(* the grid of 1 / 2^RandBits.                                             *)
(***************************************************************************)
MaxLen == 3

MaxWeight == 5

RandBits == 1

WeightSeqs == UNION {[1..len -> 0..MaxWeight] : len \in 0..MaxLen}

\* The values of random.random() * total, in units of 1 / 2^RandBits
RandValues(weights) ==
    IF SumSeq(weights) = 0 THEN {0} ELSE 0..(SumSeq(weights) * 2^RandBits - 1)

InitWR ==
    /\ products = None
    /\ customers = None
    /\ orders = None
    /\ order_line_items = None
    /\ pc = "idle"
    /\ raised = "none"
    /\ calls = <<>>
    /\ orders_data = <<>>
    /\ line_items_data = <<>>
    /\ order_id = 0
    /\ cust_idx = 0
    /\ acq_date = 0
    /\ num_orders = 0
    /\ emitted = 0
    /\ drawn = <<>>
    /\ \E weights \in WeightSeqs :
         \E rand \in RandValues(weights) :
             wr = [weights |-> weights, rand |-> rand, called |-> FALSE,
                   returned |-> None]

\* weighted_random(weights): the walk over the weights returns an index
CallWeightedRandom ==
    /\ ~wr.called
    /\ wr' = [wr EXCEPT !.called = TRUE,
                        !.returned = Some(WeightedWalk(wr.weights, wr.rand,
                                                       2^RandBits))]
    /\ UNCHANGED <<Tables, pc, raised, calls, Locals, drawn>>

NextWR == CallWeightedRandom

SpecWR == InitWR /\ [][NextWR]_vars

(***************************************************************************)
(* SpecCalls: the object over every sequence of at most MaxCalls calls of  *)
(* its five public methods that change or save tables, generate_all and    *)
(* save_to_csv included, with the default customer counts scaled down to   *)
(* one D2C and one B2B customer.                                           *)
(***************************************************************************)

\* generate_customers(): the defaults num_d2c = 50000 and num_b2b = 200,
\* scaled down
DefaultCounts == {<<1, 1>>}

\* save_to_csv: a table is missing
AnyMissing(p, c, o, l) == p = None \/ c = None \/ o = None \/ l = None

\* The body of generate_all():
\* generate_products(), generate_customers() with the default counts, and
\* generate_orders() past its precondition, up to the customer loop
RunAll(AcqDraws, StDraws, NaDraws) ==
    /\ products' = Some(Catalog)
    /\ \E cnt \in DefaultCounts :
         \E dd \in [1..cnt[1] -> [acq : AcqDraws, st : StDraws, na : NaDraws]],
            bd \in [1..cnt[2] -> [acq : AcqDraws]] :
             LET rows == CustomerRows(cnt[1], cnt[2], dd, bd)
             IN  /\ customers' = Some([j \in 1..Len(rows) |-> rows[j].row])
                 /\ drawn' = [j \in 1..Len(rows) |-> rows[j].drawn]
    /\ pc' = "loop"
    /\ raised' = "none"
    /\ orders_data' = <<>>
    /\ line_items_data' = <<>>
    /\ order_id' = 1
    /\ cust_idx' = 0
    /\ num_orders' = 0
    /\ emitted' = 0
    /\ UNCHANGED <<orders, order_line_items, acq_date, wr>>

\* generate_all()
GenerateAll(max_calls, AcqDraws, StDraws, NaDraws) ==
    /\ pc = "idle"
    /\ Len(calls) < max_calls
    /\ calls' = Append(calls, "generate_all")
    /\ RunAll(AcqDraws, StDraws, NaDraws)

\* save_to_csv() when a table is missing: generate_all() runs first
SaveToCsvGenerate(max_calls, AcqDraws, StDraws, NaDraws) ==
    /\ pc = "idle"
    /\ Len(calls) < max_calls
    /\ AnyMissing(products, customers, orders, order_line_items)
    /\ calls' = Append(calls, "save_to_csv")
    /\ RunAll(AcqDraws, StDraws, NaDraws)

\* save_to_csv() when the four tables are set: they are written as they are
SaveToCsv(max_calls) ==
    /\ pc = "idle"
    /\ Len(calls) < max_calls
    /\ ~AnyMissing(products, customers, orders, order_line_items)
    /\ raised' = "none"
    /\ calls' = Append(calls, "save_to_csv")
    /\ UNCHANGED <<Tables, pc, Locals, drawn, wr>>

NextCalls ==
    \/ GenerateProducts(MaxCalls)
    \/ GenerateCustomers(MaxCalls, OneOrNone, MidDraw, FirstStatus, NoInjection)
    \/ GenerateOrdersRaise(MaxCalls)
    \/ BeginOrders(MaxCalls)
    \/ GenerateAll(MaxCalls, MidDraw, FirstStatus, NoInjection)
    \/ SaveToCsvGenerate(MaxCalls, MidDraw, FirstStatus, NoInjection)
    \/ SaveToCsv(MaxCalls)
    \/ NextCustomer(1)
    \/ EmitOrder(MidDraw, LeastItems, FirstDraw, NoInjection, WorkedLeast, 36 + 10)
    \/ FinishOrders

SpecCalls == Init /\ [][NextCalls]_vars

(***************************************************************************)
(* Properties.  Money in the rows is in hundredths; Stored(n) is the       *)
(* binary64 value the row holds.                                           *)
(***************************************************************************)

\* C1 (SpecTotals): in every order emitted by generate_orders, total_cogs is
\* null if and only if profit is null, whatever the two null-injection
\* draws were.
PairedNull ==
    \A j \in 1..Len(orders_data) :
        (orders_data[j].total_cogs = None) <=> (orders_data[j].profit = None)

\* An emitted order whose COGS injection fired: both columns are null
PairedNullFired ==
    \E j \in 1..Len(orders_data) :
        /\ orders_data[j].total_cogs = None
        /\ orders_data[j].profit = None
        /\ orders_data[j].order_date # None

\* C2 (Spec): a call of generate_orders made while the customers table or
\* the products table is None raises ValueError, does not enter the loops,
\* and leaves the orders and line-items tables as they were.
PrecondOrder ==
    [][(/\ calls' = Append(calls, "generate_orders")
        /\ (customers = None \/ products = None))
       => (/\ raised' = "ValueError"
           /\ pc' = "idle"
           /\ orders' = orders
           /\ order_line_items' = order_line_items)]_vars

\* generate_orders has raised with only the products table missing
PrecondOrderRaised ==
    /\ calls # <<>>
    /\ calls[Len(calls)] = "generate_orders"
    /\ raised = "ValueError"
    /\ customers # None
    /\ products = None
    /\ orders = None
    /\ order_line_items = None

\* C3 (SpecTotals): every emitted order has, on the values stored in its
\* row, revenue = round(subtotal - discount_amount, 2) and, when total_cogs
\* is not null, profit = round(revenue - total_cogs, 2).
StoredIdentities ==
    \A j \in 1..Len(orders_data) :
        LET o == orders_data[j]
        IN  /\ o.revenue = Round2(FSub(Stored(o.subtotal), Stored(o.discount_amount)))
            /\ o.total_cogs # None =>
                   o.profit[1] = Round2(FSub(Stored(o.revenue), Stored(o.total_cogs[1])))

\* C4 (SpecTotals): for every emitted order, the sums of its line items'
\* stored subtotal, revenue and cogs are each within 0.01 of the order's
\* stored subtotal, revenue and total_cogs.
LineItemsReproduceOrder ==
    \A j \in 1..Len(orders_data) :
        LET o       == orders_data[j]
            ls      == SelectSeq(line_items_data, LAMBDA li : li.order_id = o.order_id)
            Near(a, b) == a - b \in -1..1
        IN  /\ Near(SumSeq([t \in 1..Len(ls) |-> ls[t].subtotal]), o.subtotal)
            /\ Near(SumSeq([t \in 1..Len(ls) |-> ls[t].revenue]), o.revenue)
            /\ o.total_cogs # None =>
                   Near(SumSeq([t \in 1..Len(ls) |-> ls[t].cogs]), o.total_cogs[1])

\* C5 (SpecRun): within one run of generate_orders the order identifiers are
\* strictly increasing in emission order across all customers, hence
\* pairwise distinct; the line-item identifiers are pairwise distinct, each
\* made of its order's number and the item's 1-based position in the order.
GlobalIdentifiers ==
    LET DigitOf(c) == CHOOSE d \in 0..9 : DigitChar[d + 1] = c
        RECURSIVE NumberOf(_)
        NumberOf(str) ==
            IF str = <<>> THEN 0
            ELSE 10 * NumberOf(SubSeq(str, 1, Len(str) - 1)) + DigitOf(str[Len(str)])
        Digits(id)  == SubSeq(id, 4, Len(id))
        OrderNo(j)  == NumberOf(Digits(orders_data[j].order_id))
        Position(t) == 1 + Cardinality({u \in 1..(t - 1) :
                           line_items_data[u].order_id = line_items_data[t].order_id})
    IN  /\ \A j \in 1..(Len(orders_data) - 1) : OrderNo(j) < OrderNo(j + 1)
        /\ Cardinality({orders_data[j].order_id : j \in 1..Len(orders_data)})
               = Len(orders_data)
        /\ Cardinality({line_items_data[t].line_item_id : t \in 1..Len(line_items_data)})
               = Len(line_items_data)
        /\ \A t \in 1..Len(line_items_data) :
               line_items_data[t].line_item_id
                   = <<"L", "I">> \o Digits(line_items_data[t].order_id)
                         \o <<"_">> \o Decimal(Position(t))

\* Orders of two customers have been emitted, the later customer's with a
\* line item in third position
GlobalIdentifiersSpan ==
    /\ Len(orders_data) >= 2
    /\ orders_data[1].customer_id # orders_data[Len(orders_data)].customer_id
    /\ orders_data[Len(orders_data)].order_id = OrderId(Len(orders_data))
    /\ line_items_data[Len(line_items_data)].line_item_id
           = LineItemId(Len(orders_data), 3)

\* C6 (SpecDates): every order date d of a customer satisfies
\* A <= d <= A + min(W - A, 730 days), where A is the customer's persisted
\* acquisition date, or 2023-01-01 when it is null, and W is 2024-11-30;
\* so d is never before A, more than two years after A or after W, and the
\* span W - A is never negative.
OrderDateInWindow ==
    \A j \in 1..Len(orders_data) :
        LET o   == orders_data[j]
            row == customers[1][CHOOSE c \in 1..Len(customers[1]) :
                                   customers[1][c].customer_id = o.customer_id]
            A   == IF row.acquisition_date = None THEN Ymd2Ord(<<2023, 1, 1>>)
                   ELSE Ymd2Ord(row.acquisition_date[1])
            W   == Ymd2Ord(<<2024, 11, 30>>)
            d   == Ymd2Ord(o.order_date[1])
        IN  o.order_date # None =>
                /\ W - A >= 0
                /\ A <= d
                /\ d <= A + (IF W - A < 730 THEN W - A ELSE 730)
                /\ d <= A + 730
                /\ d <= W

\* An order dated more than 700 days after an acquisition date that is more
\* than two years before the window end
OrderDateNearClamp ==
    \E j \in 1..Len(orders_data) :
        /\ orders_data[j].order_date # None
        /\ customers[1][cust_idx].acquisition_date # None
        /\ Ymd2Ord(<<2024, 11, 30>>)
               - Ymd2Ord(customers[1][cust_idx].acquisition_date[1]) > 730
        /\ Ymd2Ord(orders_data[j].order_date[1])
               - Ymd2Ord(customers[1][cust_idx].acquisition_date[1]) > 700

\* C7 (SpecRun): when generate_orders has gone through the customers table,
\* every customer's number of orders is in 12..36 for B2B, 2..10 for D2C
\* Active, 1..3 for D2C Churned and 2..7 for D2C At Risk, and the number of
\* orders lies between the number of customers and 10 x D2C + 36 x B2B.
OrderCountsInRange ==
    (pc = "loop" /\ cust_idx = Len(customers[1]) /\ emitted = num_orders) =>
        LET rows     == customers[1]
            Count(c) == Cardinality({j \in 1..Len(orders_data) :
                            orders_data[j].customer_id = rows[c].customer_id})
            d2c      == Cardinality({c \in 1..Len(rows) : rows[c].segment = "D2C"})
            b2b      == Cardinality({c \in 1..Len(rows) : rows[c].segment = "B2B"})
        IN  /\ \A c \in 1..Len(rows) :
                   \/ rows[c].segment = "B2B" /\ Count(c) \in 12..36
                   \/ /\ rows[c].segment = "D2C"
                      /\ \/ rows[c].status = "Active" /\ Count(c) \in 2..10
                         \/ rows[c].status = "Churned" /\ Count(c) \in 1..3
                         \/ rows[c].status = "At Risk" /\ Count(c) \in 2..7
            /\ Len(rows) <= Len(orders_data)
            /\ Len(orders_data) <= 10 * d2c + 36 * b2b

\* A finished run over a churned D2C customer with one order and a B2B
\* customer with 36
OrderCountsAtEnds ==
    /\ pc = "loop"
    /\ cust_idx = 2
    /\ Len(customers[1]) = 2
    /\ emitted = num_orders
    /\ customers[1][1].status = "Churned"
    /\ Len(orders_data) = 1 + 36

\* C8 (SpecWR): for weights that are not empty and have a positive sum, and
\* a draw r with 0 <= r < sum(weights), weighted_random returns the least
\* index i with r < weights[0] + ... + weights[i]; that index has a
\* positive weight, and of the integer draws 0..sum-1 exactly weights[i]
\* give each index i.
LeastPrefixIndex ==
    (wr.called /\ wr.weights # <<>> /\ SumSeq(wr.weights) > 0) =>
        LET w         == wr.weights
            unit      == 2^RandBits
            Prefix(m) == SumSeq(SubSeq(w, 1, m + 1))
            i         == wr.returned[1]
        IN  /\ wr.returned # None
            /\ i \in 0..(Len(w) - 1)
            /\ wr.rand < Prefix(i) * unit
            /\ \A m \in 0..(i - 1) : wr.rand >= Prefix(m) * unit
            /\ w[i + 1] > 0
            /\ \A m \in 0..(Len(w) - 1) :
                   Cardinality({r \in 0..(SumSeq(w) - 1) :
                                   WeightedWalk(w, r * unit, unit) = m}) = w[m + 1]

\* weighted_random([0, 0, 5]) has returned index 2
LeastPrefixSkipsZeros ==
    /\ wr.called
    /\ wr.weights = <<0, 0, 5>>
    /\ wr.returned = Some(2)

\* C9 (SpecWR): weighted_random called with an empty weight sequence, or
\* with weights that are all zero, is rejected with a validation error and
\* returns no index.
MalformedWeightsRejected ==
    (wr.called /\ (wr.weights = <<>> \/ SumSeq(wr.weights) = 0)) =>
        /\ wr.returned = None
        /\ raised = "ValueError"

\* C10 as stated (SpecDates): for a customer whose persisted acquisition
\* date is null, the order loop samples order dates from a window whose
\* lower bound is the date generate_customers drew.
DrawnDateBoundsOrders ==
    (pc = "loop" /\ cust_idx >= 1) =>
        (customers[1][cust_idx].acquisition_date = None
            => acq_date = Midnight(StrFTime(drawn[cust_idx])))

\* C10 as amended (SpecDates): for a customer whose persisted acquisition
\* date is null, the window's lower bound is 2023-01-01 whatever date was
\* drawn, and no order of the customer is dated before it.
FallbackDateBoundsOrders ==
    (pc = "loop" /\ cust_idx >= 1) =>
        (customers[1][cust_idx].acquisition_date = None
            => /\ acq_date = Midnight(<<2023, 1, 1>>)
               /\ \A j \in 1..Len(orders_data) :
                      (/\ orders_data[j].customer_id
                              = customers[1][cust_idx].customer_id
                       /\ orders_data[j].order_date # None)
                      => Ymd2Ord(orders_data[j].order_date[1])
                             >= Ymd2Ord(<<2023, 1, 1>>))

\* A customer with a null persisted date drawn in 2024 owns an order dated
\* before the drawn date
FallbackDatePrecedesDrawn ==
    /\ pc = "loop"
    /\ cust_idx >= 1
    /\ customers[1][cust_idx].acquisition_date = None
    /\ StrFTime(drawn[cust_idx])[1] = 2024
    /\ \E j \in 1..Len(orders_data) :
           /\ orders_data[j].order_date # None
           /\ Ymd2Ord(orders_data[j].order_date[1]) < drawn[cust_idx] \div Den

\* C11 (SpecCalls): after any sequence of calls of generate_products,
\* generate_customers, generate_orders, generate_all and save_to_csv on one
\* object, whenever the orders table is set, every order's customer_id is
\* the id of a row of the current customers table, and every line item's
\* order_id and customer_id are those of a row of the current orders table.
ReferentialIntegrity ==
    (pc = "idle" /\ orders # None) =>
        /\ customers # None
        /\ \A j \in 1..Len(orders[1]) :
               \E c \in 1..Len(customers[1]) :
                   customers[1][c].customer_id = orders[1][j].customer_id
        /\ order_line_items # None
        /\ \A k \in 1..Len(order_line_items[1]) :
               \E j \in 1..Len(orders[1]) :
                   /\ orders[1][j].order_id = order_line_items[1][k].order_id
                   /\ orders[1][j].customer_id = order_line_items[1][k].customer_id

====
